---- MODULE Spec2Model ----
(***************************************************************************)
(* Model of ConnectionProfile.createProfile, isValidProfile and            *)
(* isAzureActiveDirectory (src/models/connectionProfile.ts).               *)
(*                                                                         *)
(* JavaScript values are modelled as strings: Unset stands for undefined,  *)
(* "" for the empty string.  Both are falsy.                               *)
(***************************************************************************)
EXTENDS Integers, Sequences, FiniteSets, TLC

\* ---------------------------------------------------------------- bounds
\* longest list getAuthenticationTypesChoice may return
MaxChoices == 2
\* how many times the prompter may deliver a profile-name answer
MaxNameAnswers == 2

\* ---------------------------------------------------------------- values
Unset == "<undefined>"

SqlLogin == "SqlLogin"
Integrated == "Integrated"
ActiveDirectoryUniversal == "ActiveDirectoryUniversal"
ActiveDirectoryInteractive == "ActiveDirectoryInteractive"

\* the values of the AuthenticationTypes enumeration
AuthenticationTypes ==
    {SqlLogin, Integrated, ActiveDirectoryUniversal, ActiveDirectoryInteractive}

ServerAnswers == {"", "db1"}
UserAnswers == {"", "admin"}
ConnectionStringAnswers == {"", "Server=db1"}
NameAnswers == {"", "n1", "dflt"}
DefaultNames == {Unset, "dflt"}

\* JavaScript truthiness of a string-or-undefined value
Truthy(v) == v # Unset /\ v # ""

\* utils.isNotEmpty
isNotEmpty(str) == Truthy(str)

\* lists of at most n choices
RECURSIVE ChoiceLists(_)
ChoiceLists(n) ==
    IF n = 0 THEN {<<>>}
    ELSE ChoiceLists(n - 1)
         \cup {Append(s, c) : s \in {t \in ChoiceLists(n - 1) : Len(t) = n - 1},
                              c \in AuthenticationTypes}

Range(s) == {s[i] : i \in 1..Len(s)}

\* ---------------------------------------------------------------- state
VARIABLES
    pc,             \* position of the createProfile call
    authOptions,    \* what getAuthenticationTypesChoice returns
    defaultName,    \* defaultProfileValues.profileName (Unset if no defaults)
    profile,        \* the draft
    questions,      \* the question list handed to the prompter
    qidx,           \* the prompter's position in the list
    answers,        \* what prompt resolved with: "none", "answers", "aborted"
    azureInit,      \* AzureController.init: "none", "pending", "fulfilled", "rejected"
    login,          \* startLogin: "none", "threw", "inflight", "succeeded", "failed"
    result,         \* "none", "profile", "undefined", "rejected"
    nameAnswers,    \* history: values delivered to the profile-name callback
    spVisible,      \* history: "notReached", "shown", "skipped"
    authAnswered    \* history: the authentication-type question was answered

vars == <<pc, authOptions, defaultName, profile, questions, qidx, answers,
          azureInit, login, result, nameAnswers, spVisible, authAnswered>>

\* new ConnectionProfile(): every field undefined
NewConnectionProfile ==
    [profileName |-> Unset, savePassword |-> Unset, authenticationType |-> Unset,
     server |-> Unset, user |-> Unset, connectionString |-> Unset]

\* ---------------------------------------------------------------- pure code
\* ConnectionCredentials.isPasswordBasedCredential
isPasswordBasedCredential(p) == p.authenticationType = SqlLogin

isValidProfile_NoConnectionString(p) ==
    IF Truthy(p.authenticationType)
    THEN IF p.authenticationType = Integrated
            \/ p.authenticationType = ActiveDirectoryUniversal
         THEN isNotEmpty(p.server)
         ELSE isNotEmpty(p.server) /\ isNotEmpty(p.user)
    ELSE FALSE

isValidProfile_UserAlways(p) ==
    IF Truthy(p.connectionString) THEN TRUE
    ELSE IF Truthy(p.authenticationType)
         THEN IF p.authenticationType = Integrated
              THEN isNotEmpty(p.server)
              ELSE isNotEmpty(p.server) /\ isNotEmpty(p.user)
         ELSE FALSE

\* ConnectionProfile.isValidProfile
isValidProfile(p) ==
    IF Truthy(p.connectionString) THEN TRUE
    ELSE IF Truthy(p.authenticationType)
         THEN IF p.authenticationType = Integrated
                 \/ p.authenticationType = ActiveDirectoryUniversal
              THEN isNotEmpty(p.server)
              ELSE isNotEmpty(p.server) /\ isNotEmpty(p.user)
         ELSE FALSE

isAzureActiveDirectory_Interactive(p) ==
    p.authenticationType = ActiveDirectoryInteractive

\* ConnectionProfile.isAzureActiveDirectory
isAzureActiveDirectory(p) == p.authenticationType = ActiveDirectoryUniversal

PreAssigned_First(opts) == IF Len(opts) >= 1 THEN opts[1] ELSE Unset

\* the authentication type createProfile assigns before asking anything
PreAssigned(opts) == IF Len(opts) = 1 THEN opts[1] ELSE Unset

savePasswordShouldPrompt_AnyProfile(p) == isPasswordBasedCredential(p)

\* shouldPrompt of the save-password question
savePasswordShouldPrompt(p) ==
    ~Truthy(p.connectionString) /\ isPasswordBasedCredential(p)

\* onAnswered of the save-password question
savePasswordOnAnswered(p, value) == [p EXCEPT !.savePassword = value]

profileNameOnAnswered_Raw(p, value) == [p EXCEPT !.profileName = value]

\* onAnswered of the profile-name question
profileNameOnAnswered(p, value) ==
    [p EXCEPT !.profileName = IF Truthy(value) THEN value ELSE Unset]

ReturnValue_IgnoreAnswers(ans, p) ==
    IF isValidProfile(p) THEN "profile" ELSE "undefined"

\* the value the then-callback of createProfile returns
ReturnValue(ans, p) ==
    IF ans = "answers" /\ isValidProfile(p) THEN "profile" ELSE "undefined"

\* ---------------------------------------------------------------- collaborators
CredentialQuestionNames == {"server", "connectionString", "authenticationType", "user"}

\* ConnectionCredentials.getRequiredCredentialValuesQuestions
getRequiredCredentialValuesQuestions(p) ==
    <<"server", "connectionString">>
    \o (IF p.authenticationType = Unset THEN <<"authenticationType">> ELSE <<>>)
    \o <<"user">>

\* the values a question can be answered with
AnswersOf(q, opts) ==
    CASE q = "server" -> ServerAnswers
      [] q = "connectionString" -> ConnectionStringAnswers
      [] q = "authenticationType" -> Range(opts)
      [] q = "user" -> UserAnswers
      [] q = "savePassword" -> {"true", "false"}
      [] q = "profileName" -> NameAnswers

\* the onAnswered callback of question q
OnAnswered(q, p, value) ==
    CASE q = "server" -> [p EXCEPT !.server = value]
      [] q = "connectionString" -> [p EXCEPT !.connectionString = value]
      [] q = "authenticationType" -> [p EXCEPT !.authenticationType = value]
      [] q = "user" -> [p EXCEPT !.user = value]
      [] q = "savePassword" -> savePasswordOnAnswered(p, value)
      [] q = "profileName" -> profileNameOnAnswered(p, value)

\* the prompter may show q: its shouldPrompt can be true
MayShow(q, p) ==
    \/ q \in CredentialQuestionNames
    \/ q = "savePassword" /\ savePasswordShouldPrompt(p)
    \/ q = "profileName"

\* the prompter may skip q: its shouldPrompt can be false
MaySkip(q, p) ==
    \/ q \in CredentialQuestionNames
    \/ q = "savePassword" /\ ~savePasswordShouldPrompt(p)

\* ---------------------------------------------------------------- behaviour
Init ==
    /\ pc = "start"
    /\ authOptions \in ChoiceLists(MaxChoices)
    /\ defaultName \in DefaultNames
    /\ profile = NewConnectionProfile
    /\ questions = <<>>
    /\ qidx = 1
    /\ answers = "none"
    /\ azureInit = "none"
    /\ login = "none"
    /\ result = "none"
    /\ nameAnswers = <<>>
    /\ spVisible = "notReached"
    /\ authAnswered = FALSE

\* createProfile, up to the request for the credential questions
PreAssign ==
    /\ pc = "start"
    /\ profile' = [NewConnectionProfile EXCEPT
                       !.authenticationType = PreAssigned(authOptions)]
    /\ pc' = "getQuestions"
    /\ UNCHANGED <<authOptions, defaultName, questions, qidx, answers,
                   azureInit, login, result, nameAnswers, spVisible, authAnswered>>

\* createProfile, the question list is built and prompter.prompt is called
BuildQuestions ==
    /\ pc = "getQuestions"
    /\ questions' = getRequiredCredentialValuesQuestions(profile)
                        \o <<"savePassword", "profileName">>
    /\ qidx' = 1
    /\ pc' = "prompting"
    /\ UNCHANGED <<authOptions, defaultName, profile, answers,
                   azureInit, login, result, nameAnswers, spVisible, authAnswered>>

\* prompter: shouldPrompt of the current question is false
PromptSkip ==
    /\ pc = "prompting"
    /\ qidx <= Len(questions)
    /\ MaySkip(questions[qidx], profile)
    /\ qidx' = qidx + 1
    /\ spVisible' = IF questions[qidx] = "savePassword" THEN "skipped" ELSE spVisible
    /\ UNCHANGED <<pc, authOptions, defaultName, profile, questions, answers,
                   azureInit, login, result, nameAnswers, authAnswered>>

\* prompter: the current question is shown and answered
PromptAnswer ==
    /\ pc = "prompting"
    /\ qidx <= Len(questions)
    /\ MayShow(questions[qidx], profile)
    /\ \E value \in AnswersOf(questions[qidx], authOptions) :
          /\ profile' = OnAnswered(questions[qidx], profile, value)
          /\ nameAnswers' = IF questions[qidx] = "profileName"
                            THEN Append(nameAnswers, value) ELSE nameAnswers
    /\ \/ qidx' = qidx + 1
       \/ /\ questions[qidx] = "profileName"
          /\ Len(nameAnswers') < MaxNameAnswers
          /\ qidx' = qidx
    /\ spVisible' = IF questions[qidx] = "savePassword" THEN "shown" ELSE spVisible
    /\ authAnswered' = (authAnswered \/ questions[qidx] = "authenticationType")
    /\ UNCHANGED <<pc, authOptions, defaultName, questions, answers,
                   azureInit, login, result>>

\* prompter: the current question is shown and the user cancels
PromptAbort ==
    /\ pc = "prompting"
    /\ qidx <= Len(questions)
    /\ MayShow(questions[qidx], profile)
    /\ answers' = "aborted"
    /\ pc' = "resolved"
    /\ spVisible' = IF questions[qidx] = "savePassword" THEN "shown" ELSE spVisible
    /\ UNCHANGED <<authOptions, defaultName, profile, questions, qidx,
                   azureInit, login, result, nameAnswers, authAnswered>>

\* prompter: every question was handled, prompt resolves with the answers
PromptFinish ==
    /\ pc = "prompting"
    /\ qidx > Len(questions)
    /\ answers' = "answers"
    /\ pc' = "resolved"
    /\ UNCHANGED <<authOptions, defaultName, profile, questions, qidx,
                   azureInit, login, result, nameAnswers, spVisible, authAnswered>>

\* the then-callback of createProfile, up to its first suspension
ThenCallback ==
    /\ pc = "resolved"
    /\ IF isAzureActiveDirectory(profile)
       THEN /\ azureInit' = "pending"
            /\ pc' = "awaitInit"
            /\ UNCHANGED result
       ELSE /\ result' = ReturnValue(answers, profile)
            /\ pc' = "done"
            /\ UNCHANGED azureInit
    /\ UNCHANGED <<authOptions, defaultName, profile, questions, qidx, answers,
                   login, nameAnswers, spVisible, authAnswered>>

\* azureController.init() rejects: the callback's promise rejects
InitRejected ==
    /\ pc = "awaitInit"
    /\ azureInit' = "rejected"
    /\ result' = "rejected"
    /\ pc' = "failed"
    /\ UNCHANGED <<authOptions, defaultName, profile, questions, qidx, answers,
                   login, nameAnswers, spVisible, authAnswered>>

\* azureController.init() fulfils: startLogin is called, its result is logged
\* and not awaited, the draft is validated and the callback returns
InitFulfilled ==
    /\ pc = "awaitInit"
    /\ azureInit' = "fulfilled"
    /\ \E outcome \in {"threw", "inflight", "succeeded", "failed"} :
          /\ login' = outcome
          /\ IF outcome = "threw"
             THEN result' = "rejected" /\ pc' = "failed"
             ELSE result' = ReturnValue(answers, profile) /\ pc' = "done"
    /\ UNCHANGED <<authOptions, defaultName, profile, questions, qidx, answers,
                   nameAnswers, spVisible, authAnswered>>

\* the login flow started by startLogin settles
LoginSettles ==
    /\ login = "inflight"
    /\ login' \in {"succeeded", "failed"}
    /\ UNCHANGED <<pc, authOptions, defaultName, profile, questions, qidx, answers,
                   azureInit, result, nameAnswers, spVisible, authAnswered>>

Next ==
    \/ PreAssign
    \/ BuildQuestions
    \/ PromptSkip
    \/ PromptAnswer
    \/ PromptAbort
    \/ PromptFinish
    \/ ThenCallback
    \/ InitRejected
    \/ InitFulfilled
    \/ LoginSettles

Spec == Init /\ [][Next]_vars

TypeOK ==
    /\ pc \in {"start", "getQuestions", "prompting", "resolved", "awaitInit",
               "done", "failed"}
    /\ answers \in {"none", "answers", "aborted"}
    /\ azureInit \in {"none", "pending", "fulfilled", "rejected"}
    /\ login \in {"none", "threw", "inflight", "succeeded", "failed"}
    /\ result \in {"none", "profile", "undefined", "rejected"}
    /\ Len(nameAnswers) <= MaxNameAnswers

\* ---------------------------------------------------------------- properties
\* the validity invariant of the data model
Valid(p) ==
    \/ Truthy(p.connectionString)
    \/ /\ p.authenticationType # Unset
       /\ Truthy(p.server)
       /\ p.authenticationType \in {Integrated, ActiveDirectoryUniversal}
          \/ Truthy(p.user)

Returned == pc \in {"done", "failed"}
ExchangeInvoked == azureInit # "none" \/ login # "none"
LastNameAnswer == nameAnswers[Len(nameAnswers)]

\* C1: when the prompt is aborted, createProfile returns "not completed" and
\* the authentication exchange is never invoked.
C1_AbortNeverAuthenticates ==
    answers = "aborted" =>
        /\ ~ExchangeInvoked
        /\ Returned => result = "undefined"

\* C2: a profile is returned only if the prompt returned answers and the draft
\* is valid; every other run that does not throw returns "not completed".
C2_ProfileOnlyIfAnsweredAndValid ==
    /\ result = "profile" => answers = "answers" /\ Valid(profile)
    /\ pc = "done" => result = IF answers = "answers" /\ Valid(profile)
                              THEN "profile" ELSE "undefined"

C2_Witness ==
    /\ pc = "done"
    /\ result = "profile"
    /\ answers = "answers"

C4_AuthFailurePropagates ==
    (azureInit = "rejected" \/ login \in {"threw", "failed"}) =>
        result \notin {"profile", "undefined"}

\* C5 as stated: with answers, the exchange runs exactly for
\* ActiveDirectoryInteractive.
C5_ExchangeIffInteractive ==
    (answers = "answers" /\ pc \in {"awaitInit", "done", "failed"}) =>
        (ExchangeInvoked <=> profile.authenticationType = ActiveDirectoryInteractive)

\* C5 amended: with answers, the exchange runs exactly for
\* ActiveDirectoryUniversal, and for no other authentication type.
C5_ExchangeIffUniversal ==
    (answers = "answers" /\ pc \in {"awaitInit", "done", "failed"}) =>
        (ExchangeInvoked <=> profile.authenticationType = ActiveDirectoryUniversal)

C5_Witness ==
    /\ answers = "answers"
    /\ pc = "awaitInit"
    /\ azureInit = "pending"
    /\ profile.authenticationType = ActiveDirectoryUniversal

\* C6: an ActiveDirectoryUniversal draft with a server and no user is returned
\* as a profile although the exchange ran, and whatever the login's outcome the
\* result depends only on the answers and the draft's validity.
C6_ExchangeOutcomeDoesNotGate ==
    /\ ( /\ pc = "done"
         /\ answers = "answers"
         /\ profile.authenticationType = ActiveDirectoryUniversal
         /\ Truthy(profile.server) )
       => /\ azureInit = "fulfilled"
          /\ login \in {"inflight", "succeeded", "failed"}
          /\ result = "profile"
    /\ (pc = "done" /\ ExchangeInvoked)
       => (result = "profile" <=> answers = "answers" /\ Valid(profile))

C6_Witness ==
    /\ pc = "done"
    /\ answers = "answers"
    /\ profile.authenticationType = ActiveDirectoryUniversal
    /\ Truthy(profile.server)
    /\ ~Truthy(profile.user)
    /\ ~Truthy(profile.connectionString)
    /\ login = "failed"
    /\ result = "profile"

\* C7: when the exchange runs, init and the login flow have completed before
\* the draft is validated and the result returned.
C7_LoginCompleteBeforeReturn ==
    (pc = "done" /\ ExchangeInvoked) =>
        azureInit = "fulfilled" /\ login \in {"succeeded", "failed"}

\* C8: the save-password question is shown exactly when the draft has no
\* connection string and its credential is password based; savePassword is
\* never set on a draft with a connection string.
C8_SavePasswordVisibility ==
    /\ spVisible = "shown" =>
           ~Truthy(profile.connectionString) /\ isPasswordBasedCredential(profile)
    /\ spVisible = "skipped" =>
           Truthy(profile.connectionString) \/ ~isPasswordBasedCredential(profile)
    /\ Truthy(profile.connectionString) => profile.savePassword = Unset

C8_Witness ==
    /\ spVisible = "skipped"
    /\ Truthy(profile.connectionString)
    /\ profile.authenticationType = SqlLogin
    /\ pc = "done"

C10_SingleChoicePreAssigned ==
    /\ (pc # "start" /\ Len(authOptions) = 1) =>
           /\ profile.authenticationType = authOptions[1]
           /\ "authenticationType" \notin Range(questions)
    /\ (Len(authOptions) # 1 /\ ~authAnswered) =>
           profile.authenticationType = Unset

C10_Witness ==
    /\ pc = "getQuestions"
    /\ Len(authOptions) = 1
    /\ profile.authenticationType = authOptions[1]
    /\ questions = <<>>
====
